---- MODULE Spec2Model ----
(***************************************************************************)
(* Monopage: URL / element state and history management for a single-page  *)
(* site (src/monopage.js, first module, lines 147-791).                     *)
(*                                                                         *)
(* The state is the module's three globals (conf, bk_conf, url_cache,      *)
(* async_keep), the browser's session history (hist, cur) and the requests *)
(* Http.get has sent and not yet answered (inflight, and sent: the same    *)
(* requests in the order they were sent, each with the handler that sent   *)
(* it).  `seen` and `last` observe the run: the URLs handed to init or     *)
(* answered by the server, and what the last handler did.                  *)
(***************************************************************************)
EXTENDS Integers, Sequences, FiniteSets, TLC

VARIABLES conf, bk_conf, url_cache, async_keep, inflight, sent, hist, cur, seen,
          last, ops

vars ==
    <<conf, bk_conf, url_cache, async_keep, inflight, sent, hist, cur, seen, last, ops>>

(***************************************************************************)
(* Bounds of the model.                                                    *)
(***************************************************************************)
\* largest positive conf.cache tried
MaxCap == 2
\* handler calls in a run
MaxOps == 5

(***************************************************************************)
(* JavaScript values.                                                      *)
(***************************************************************************)
\* null, undefined, false and true are written so that no string of the page
\* equals them
NULL == "<null>"
UNDEFINED == "<undefined>"
JSFALSE == "<false>"
JSTRUE == "<true>"

\* Strings are sequences of characters; a null href is NullUrl.
NullUrl == <<"<null>">>
Origin == <<"h", "t", "t", "p", ":", "/", "/", "o">>
Location0 == Origin \o <<"/">>

Min(a, b) == IF a < b THEN a ELSE b

\* String.prototype.substring(0, n)
substring(s, n) == SubSeq(s, 1, Min(n, Len(s)))

\* truthiness of a value that is a string, a boolean, null or undefined
Truthy(v) == v \notin {NULL, UNDEFINED, JSFALSE, ""}

\* the typeof operator on such a value: always a string
typeof(v) ==
    IF v = UNDEFINED THEN "undefined"
    ELSE IF v \in {JSTRUE, JSFALSE} THEN "boolean"
    ELSE IF v = NULL THEN "object"
    ELSE "string"

JSBool(b) == IF b THEN JSTRUE ELSE JSFALSE

\* objects as functions with a growing and shrinking set of keys
EmptyObj == [k \in {} |-> k]
HasKey(o, k) == k \in DOMAIN o
SetKey(o, k, v) == [x \in (DOMAIN o) \cup {k} |-> IF x = k THEN v ELSE o[x]]
\* delete that empties the object, as with one slot for all URLs
DelKey_all(o, k) == [x \in {} |-> x]

DelKey(o, k) == [x \in (DOMAIN o) \ {k} |-> o[x]]

(***************************************************************************)
(* The inputs the environment may supply.                                  *)
(***************************************************************************)
\* element ids; "page" is an element of the document
LiveIds == { "page" }
\* function names; "handler" names a function
Callables == { "handler" }
\* bodies handed to init and returned by the server
Bodies == { "", "x" }
\* values of conf.cache: unlimited, disabled, bounded
Capacities == { -1, 0 } \cup (1 .. MaxCap)

\* an inbound link of the page: its href, target and onreturn attributes
\* and whether it has the nohist and nocache classes
Link(href, target, onreturn, nohist, nocache) ==
    [ href |-> href, target |-> target, onreturn |-> onreturn,
      nohist |-> nohist, nocache |-> nocache ]

\* The page's inbound links: two URLs, one of them linked in relative and in
\* absolute form with different attributes and classes, and a link without
\* href.
Links ==
    { Link(<<"/", "a">>, "page", NULL, FALSE, FALSE),
      Link(Origin \o <<"/", "a">>, NULL, "handler", TRUE, FALSE),
      Link(<<"/", "a">>, "page", "handler", FALSE, TRUE),
      Link(<<"b">>, "page", NULL, FALSE, FALSE),
      Link(NullUrl, "page", NULL, FALSE, FALSE) }

\* the arguments of init: body, target, func, call
InitArgs ==
    { <<b, a[1], a[2], a[3]>> :
        b \in Bodies,
        a \in { <<"page", NULL, FALSE>>, <<"page", NULL, TRUE>>,
                <<NULL, "handler", TRUE>> } }

\* The server's answer for a body: the JSON text {"body": b}.
Raw(b) == <<"{", "body", ":", b, "}">>
Malformed == <<"<">>
Responses == { Raw(b) : b \in Bodies } \cup { Malformed }

(***************************************************************************)
(* Configuration.                                                          *)
(***************************************************************************)
\* the defaults of `var conf`; only the settings the handlers branch on
DefaultConf ==
    [ default_target_id |-> JSFALSE,
      default_action |-> JSFALSE,
      response_key_body |-> "body",
      cache |-> -1 ]

\* Utils.sieve(conf, conf_obj): conf with the settings conf_obj names
sieve(cf, conf_obj) ==
    [ k \in DOMAIN cf |-> IF k \in DOMAIN conf_obj THEN conf_obj[k] ELSE cf[k] ]

\* setConf: the old settings become the backup
makeNewConf(cf, conf_obj) ==
    [ bk_conf |-> <<cf>>, conf |-> sieve(cf, conf_obj) ]

\* resetConf: the backup, when there is one, becomes the settings and is
\* forgotten; bk is <<>> for null
resetConfToDefault(cf, bk) ==
    IF bk /= <<>> THEN [ bk_conf |-> <<>>, conf |-> bk[1] ]
    ELSE [ bk_conf |-> bk, conf |-> cf ]

(***************************************************************************)
(* URLs and state objects.                                                 *)
(***************************************************************************)
\* prefixUrl(null) is a TypeError: null has no substring
prefixUrlThrows(url) == url = NullUrl

prefixUrl(url) ==
    IF substring(url, 6) = substring(Origin, 6) THEN url
    ELSE IF Len(url) > 0 /\ url[1] = "/" THEN Origin \o url
    ELSE Origin \o <<"/">> \o url

\* target_id and func are kept only when they are strings
makeStateObject(url, body, target_id, func) ==
    [ target_id |-> IF typeof(target_id) = "string" THEN target_id ELSE NULL,
      url |-> prefixUrl(url),
      action |-> IF typeof(func) = "string" THEN func ELSE NULL,
      body |-> body ]

\* a link is [href, target, onreturn, nohist, nocache]; `x || null`
OrNull(v) == IF Truthy(v) THEN v ELSE NULL
LinkUrl(link) == IF link.href = <<>> THEN NullUrl ELSE link.href

makeStateObjectFromLinkThrows(link) == prefixUrlThrows(LinkUrl(link))

makeStateObjectFromLink(link) ==
    makeStateObject(LinkUrl(link), NULL, OrNull(link.target), OrNull(link.onreturn))

\* record becomes a boolean; `typeof cache == undefined` compares a string
\* with undefined, so cache is kept as it was passed
makeAsyncObject(cf, state, record, cache) ==
    [ state |-> state,
      record |-> (typeof(record) /= UNDEFINED) /\ Truthy(record),
      cache |-> IF typeof(cache) = UNDEFINED
                THEN JSBool(cf.cache /= 0)
                ELSE cache ]

\* shouldCache not looking at the link's classes
shouldCache_ignoreClass(cf, link) == JSBool(cf.cache /= 0)

shouldCache(cf, link) ==
    IF link.nocache THEN JSFALSE ELSE JSBool(cf.cache /= 0)

\* shouldMakeHistory not looking at the link's classes
shouldMakeHistory_always(link) == JSTRUE

shouldMakeHistory(link) ==
    IF link.nohist THEN JSFALSE ELSE JSTRUE

(***************************************************************************)
(* The URL cache: url_cache is the sequence of its entries in the order    *)
(* Object.keys lists them, the order of insertion.                         *)
(***************************************************************************)
CacheKeys(cache) == { cache[i].url : i \in 1 .. Len(cache) }

CacheIndex(cache, url) == CHOOSE i \in 1 .. Len(cache) : cache[i].url = url

\* CacheAssign that only adds: a key already in the cache keeps its old body
CacheAssign_addOnly(cache, url, body) ==
    IF url \in CacheKeys(cache) THEN cache
    ELSE Append(cache, [url |-> url, body |-> body])

\* url_cache[url] = body: an existing key keeps its place
CacheAssign(cache, url, body) ==
    IF url \in CacheKeys(cache)
    THEN [cache EXCEPT ![CacheIndex(cache, url)].body = body]
    ELSE Append(cache, [url |-> url, body |-> body])

\* n times: delete url_cache[Object.keys(url_cache).shift()]
\* one entry removed whatever the excess
CacheShift_one(cache, n) == SubSeq(cache, Min(1, Len(cache)) + 1, Len(cache))

CacheShift(cache, n) == SubSeq(cache, Min(n, Len(cache)) + 1, Len(cache))

\* addBodyToCache with `cache_size <= conf.cache` for `cache_size < conf.cache`
addBodyToCache_offByOne(cf, cache, state_obj) ==
    IF cf.cache < 0 THEN CacheAssign(cache, state_obj.url, state_obj.body)
    ELSE IF cf.cache > 0
    THEN IF Len(cache) <= cf.cache
         THEN CacheAssign(cache, state_obj.url, state_obj.body)
         ELSE CacheShift(cache, (Len(cache) - cf.cache) + 1)
    ELSE cache

\* addBodyToCache keyed by the path of the URL, the origin cut off
addBodyToCache_pathKey(cf, cache, state_obj) ==
    LET path == SubSeq(state_obj.url, Len(Origin) + 1, Len(state_obj.url))
    IN  IF cf.cache < 0 THEN CacheAssign(cache, path, state_obj.body)
        ELSE IF cf.cache > 0
        THEN IF Len(cache) < cf.cache
             THEN CacheAssign(cache, path, state_obj.body)
             ELSE CacheShift(cache, (Len(cache) - cf.cache) + 1)
        ELSE cache

\* a cache of one entry: storing a body forgets every other
addBodyToCache_single(cf, cache, state_obj) ==
    IF cf.cache /= 0 THEN <<[url |-> state_obj.url, body |-> state_obj.body]>>
    ELSE cache

addBodyToCache(cf, cache, state_obj) ==
    IF cf.cache < 0 THEN CacheAssign(cache, state_obj.url, state_obj.body)
    ELSE IF cf.cache > 0
    THEN IF Len(cache) < cf.cache
         THEN CacheAssign(cache, state_obj.url, state_obj.body)
         ELSE CacheShift(cache, (Len(cache) - cf.cache) + 1)
    ELSE cache

getBodyFromCache(cache, url) ==
    IF url \in CacheKeys(cache) THEN cache[CacheIndex(cache, url)].body
    ELSE JSFALSE

(***************************************************************************)
(* The browser: the session history is a sequence of entries               *)
(* [state, url], state being <<>> (null) or <<record>>; cur is the current *)
(* entry and its url is window.location.href.                              *)
(***************************************************************************)
LocationHref(h, c) == h[c].url

\* history.replaceState(state, '', url)
replaceState(h, c, state, url) ==
    [ hist |-> [h EXCEPT ![c] = [state |-> <<state>>, url |-> url]], cur |-> c ]

\* history.pushState(state, '', url): the entries after the current one go
pushState(h, c, state, url) ==
    [ hist |-> Append(SubSeq(h, 1, c), [state |-> <<state>>, url |-> url]),
      cur |-> c + 1 ]

\* prepStateForHistory handing the whole state object to the history
prepStateForHistory_whole(state_obj) == state_obj

prepStateForHistory(state_obj) ==
    [ target_id |-> state_obj.target_id,
      action |-> state_obj.action,
      url |-> state_obj.url ]

\* pushStateToHistory calling replaceState
pushStateToHistory_replace(h, c, state_obj) ==
    replaceState(h, c, prepStateForHistory(state_obj), state_obj.url)

pushStateToHistory(h, c, state_obj) ==
    pushState(h, c, prepStateForHistory(state_obj), state_obj.url)

(***************************************************************************)
(* Making a state current.                                                 *)
(***************************************************************************)
\* document.getElementById
getElementById(id) == IF id \in LiveIds THEN id ELSE NULL

getStateTarget(cf, state_obj) ==
    LET target_id ==
            IF Truthy(state_obj.target_id) THEN state_obj.target_id
            ELSE IF Truthy(cf.default_target_id) THEN cf.default_target_id
            ELSE NULL
    IN  IF Truthy(target_id) THEN getElementById(target_id) ELSE NULL

getStateAction(cf, state_obj) ==
    IF Truthy(state_obj.action) THEN state_obj.action
    ELSE IF Truthy(cf.default_action) THEN cf.default_action
    ELSE NULL

\* The history after the call and what the call did: the element filled,
\* the function called, and whether calling it threw (the name is not a
\* function's).
\* makeStateCurrent without its `if (record)`: nothing is pushed
makeStateCurrent_noRecord(cf, state_obj, record, h, c) ==
    LET target == getStateTarget(cf, state_obj)
        func == getStateAction(cf, state_obj)
    IN  [ hist |-> h,
          cur |-> c,
          pushed |-> FALSE,
          filled |-> target,
          invoked |-> IF Truthy(func) /\ func \in Callables THEN func ELSE NULL,
          threw |-> Truthy(func) /\ func \notin Callables ]

\* makeStateCurrent resolving and calling the function before it fills the
\* element
makeStateCurrent_callFirst(cf, state_obj, record, h, c) ==
    LET target == getStateTarget(cf, state_obj)
        func == getStateAction(cf, state_obj)
        br == IF record THEN pushStateToHistory(h, c, state_obj)
              ELSE [hist |-> h, cur |-> c]
    IN  [ hist |-> br.hist,
          cur |-> br.cur,
          pushed |-> record,
          filled |-> IF Truthy(func) /\ func \notin Callables THEN NULL ELSE target,
          invoked |-> IF Truthy(func) /\ func \in Callables THEN func ELSE NULL,
          threw |-> Truthy(func) /\ func \notin Callables ]

makeStateCurrent(cf, state_obj, record, h, c) ==
    LET target == getStateTarget(cf, state_obj)
        func == getStateAction(cf, state_obj)
        br == IF record THEN pushStateToHistory(h, c, state_obj)
              ELSE [hist |-> h, cur |-> c]
    IN  [ hist |-> br.hist,
          cur |-> br.cur,
          pushed |-> record,
          filled |-> target,
          invoked |-> IF Truthy(func) /\ func \in Callables THEN func ELSE NULL,
          threw |-> Truthy(func) /\ func \notin Callables ]

(***************************************************************************)
(* What a handler did, as `last` records it.                               *)
(***************************************************************************)
\* op: the entry point; url: the URL it worked on; hit: the body came from
\* the cache; put: addBodyToCache was called, with `body` under `key`, the
\* cache then holding `presize` entries; pushed / replaced: the history
\* calls made; fetched: a request was sent; threw: the handler ended in an
\* exception; disaster: a response found no retained state; filled: the
\* element whose innerHTML was set; invoked: the function called;
\* prevented: event.preventDefault() was called; touched: the region given
\* to touchLinksInRegion.
Did(op, url) ==
    [ op |-> op, url |-> url, hit |-> FALSE, put |-> FALSE, key |-> NullUrl,
      body |-> NULL,
      presize |-> 0, pushed |-> FALSE, replaced |-> FALSE, fetched |-> FALSE,
      threw |-> FALSE, disaster |-> FALSE, filled |-> NULL, invoked |-> NULL,
      prevented |-> FALSE, touched |-> NULL ]

(***************************************************************************)
(* init                                                                    *)
(***************************************************************************)
\* setInitialState as it was before conf.cache: the body is stored whatever
\* the cache limit
setInitialState_noLimit(cf, cache, h, c, url, body, target_id, func, call_func) ==
    LET state_obj == makeStateObject(url, body, target_id, func)
        br == replaceState(h, c, prepStateForHistory(state_obj), state_obj.url)
        cache1 == CacheAssign(cache, state_obj.url, state_obj.body)
        mk == makeStateCurrent(cf, state_obj, FALSE, br.hist, br.cur)
    IN  [ url_cache |-> cache1,
          hist |-> IF call_func THEN mk.hist ELSE br.hist,
          cur |-> IF call_func THEN mk.cur ELSE br.cur,
          last |-> [ Did("init", state_obj.url) EXCEPT
                       !.replaced = TRUE,
                       !.put = TRUE,
                       !.key = state_obj.url,
                       !.body = body,
                       !.presize = Len(cache),
                       !.pushed = call_func /\ mk.pushed,
                       !.filled = IF call_func THEN mk.filled ELSE NULL,
                       !.invoked = IF call_func THEN mk.invoked ELSE NULL,
                       !.threw = call_func /\ mk.threw ] ]

\* setInitialState making the state current whatever call_func is
setInitialState_alwaysCall(cf, cache, h, c, url, body, target_id, func, call_func) ==
    LET state_obj == makeStateObject(url, body, target_id, func)
        br == replaceState(h, c, prepStateForHistory(state_obj), state_obj.url)
        cache1 == IF cf.cache /= 0 THEN addBodyToCache(cf, cache, state_obj)
                  ELSE cache
        mk == makeStateCurrent(cf, state_obj, FALSE, br.hist, br.cur)
    IN  [ url_cache |-> cache1,
          hist |-> mk.hist,
          cur |-> mk.cur,
          last |-> [ Did("init", state_obj.url) EXCEPT
                       !.replaced = TRUE,
                       !.put = (cf.cache /= 0),
                       !.key = IF cf.cache /= 0 THEN state_obj.url ELSE NullUrl,
                       !.body = body,
                       !.presize = Len(cache),
                       !.pushed = mk.pushed,
                       !.filled = mk.filled,
                       !.invoked = mk.invoked,
                       !.threw = mk.threw ] ]

setInitialState(cf, cache, h, c, url, body, target_id, func, call_func) ==
    LET state_obj == makeStateObject(url, body, target_id, func)
        br == replaceState(h, c, prepStateForHistory(state_obj), state_obj.url)
        cache1 == IF cf.cache /= 0 THEN addBodyToCache(cf, cache, state_obj)
                  ELSE cache
        mk == makeStateCurrent(cf, state_obj, FALSE, br.hist, br.cur)
    IN  [ url_cache |-> cache1,
          hist |-> IF call_func THEN mk.hist ELSE br.hist,
          cur |-> IF call_func THEN mk.cur ELSE br.cur,
          last |-> [ Did("init", state_obj.url) EXCEPT
                       !.replaced = TRUE,
                       !.put = (cf.cache /= 0),
                       !.key = IF cf.cache /= 0 THEN state_obj.url ELSE NullUrl,
                       !.body = body,
                       !.presize = Len(cache),
                       !.pushed = call_func /\ mk.pushed,
                       !.filled = IF call_func THEN mk.filled ELSE NULL,
                       !.invoked = IF call_func THEN mk.invoked ELSE NULL,
                       !.threw = call_func /\ mk.threw ] ]

(***************************************************************************)
(* click                                                                   *)
(***************************************************************************)
\* handleClick adding the history entry before it sends the request
handleClick_pushFirst(cf, cache, keep, h, c, link) ==
    IF prefixUrlThrows(link.href)
    THEN [ url_cache |-> cache, async_keep |-> keep, hist |-> h, cur |-> c,
           fetch |-> <<>>,
           last |-> [ Did("click", NullUrl) EXCEPT
                        !.prevented = TRUE, !.threw = TRUE ] ]
    ELSE
    LET fixed_url == prefixUrl(link.href)
        body == getBodyFromCache(cache, fixed_url)
        did == [ Did("click", fixed_url) EXCEPT
                   !.prevented = TRUE, !.presize = Len(cache) ]
    IN  IF makeStateObjectFromLinkThrows(link)
        THEN [ url_cache |-> cache, async_keep |-> keep, hist |-> h, cur |-> c,
               fetch |-> <<>>,
               last |-> [ did EXCEPT !.hit = Truthy(body), !.threw = TRUE ] ]
        ELSE IF Truthy(body)
        THEN LET state_obj == [ makeStateObjectFromLink(link) EXCEPT !.body = body ]
                 mk == makeStateCurrent(cf, state_obj,
                                        Truthy(shouldMakeHistory(link)), h, c)
             IN  [ url_cache |-> cache, async_keep |-> keep,
                   hist |-> mk.hist, cur |-> mk.cur, fetch |-> <<>>,
                   last |-> [ did EXCEPT
                                !.hit = TRUE, !.body = body,
                                !.pushed = mk.pushed, !.filled = mk.filled,
                                !.invoked = mk.invoked, !.threw = mk.threw ] ]
        ELSE [ url_cache |-> cache,
               async_keep |->
                   SetKey(keep, fixed_url,
                          makeAsyncObject(cf, makeStateObjectFromLink(link),
                                          shouldMakeHistory(link),
                                          shouldCache(cf, link))),
               hist |-> IF link.nohist THEN h
                        ELSE pushStateToHistory(h, c, makeStateObjectFromLink(link)).hist,
               cur |-> IF link.nohist THEN c ELSE c + 1,
               fetch |-> <<fixed_url>>,
               last |-> [ did EXCEPT !.fetched = TRUE, !.pushed = ~ link.nohist ] ]

handleClick(cf, cache, keep, h, c, link) ==
    IF prefixUrlThrows(link.href)
    THEN [ url_cache |-> cache, async_keep |-> keep, hist |-> h, cur |-> c,
           fetch |-> <<>>,
           last |-> [ Did("click", NullUrl) EXCEPT
                        !.prevented = TRUE, !.threw = TRUE ] ]
    ELSE
    LET fixed_url == prefixUrl(link.href)
        body == getBodyFromCache(cache, fixed_url)
        did == [ Did("click", fixed_url) EXCEPT
                   !.prevented = TRUE, !.presize = Len(cache) ]
    IN  IF makeStateObjectFromLinkThrows(link)
        THEN [ url_cache |-> cache, async_keep |-> keep, hist |-> h, cur |-> c,
               fetch |-> <<>>,
               last |-> [ did EXCEPT !.hit = Truthy(body), !.threw = TRUE ] ]
        ELSE IF Truthy(body)
        THEN LET state_obj == [ makeStateObjectFromLink(link) EXCEPT !.body = body ]
                 mk == makeStateCurrent(cf, state_obj,
                                        Truthy(shouldMakeHistory(link)), h, c)
             IN  [ url_cache |-> cache, async_keep |-> keep,
                   hist |-> mk.hist, cur |-> mk.cur, fetch |-> <<>>,
                   last |-> [ did EXCEPT
                                !.hit = TRUE, !.body = body,
                                !.pushed = mk.pushed, !.filled = mk.filled,
                                !.invoked = mk.invoked, !.threw = mk.threw ] ]
        ELSE [ url_cache |-> cache,
               async_keep |->
                   SetKey(keep, fixed_url,
                          makeAsyncObject(cf, makeStateObjectFromLink(link),
                                          shouldMakeHistory(link),
                                          shouldCache(cf, link))),
               hist |-> h, cur |-> c,
               fetch |-> <<fixed_url>>,
               last |-> [ did EXCEPT !.fetched = TRUE ] ]

(***************************************************************************)
(* pop                                                                     *)
(***************************************************************************)
\* truthiness of a URL string
UrlTruthy(url) == url /= <<>> /\ url /= NullUrl

\* event.state as a state object: it has no body property
StateOfRecord(rec) ==
    [ target_id |-> rec.target_id, url |-> rec.url, action |-> rec.action,
      body |-> UNDEFINED ]

\* state is event.state: <<>> for null, else <<record>>; href is
\* window.location.href when the event fires
handlePop(cf, cache, keep, h, c, state, href) ==
    LET rec == state[1]
        body == getBodyFromCache(cache, rec.url)
    IN  IF state /= <<>> /\ Truthy(body)
        THEN LET state_obj == makeStateObject(rec.url, body, rec.target_id, rec.action)
                 mk == makeStateCurrent(cf, state_obj, FALSE, h, c)
             IN  [ url_cache |-> cache, async_keep |-> keep,
                   hist |-> mk.hist, cur |-> mk.cur, fetch |-> <<>>,
                   last |-> [ Did("pop", rec.url) EXCEPT
                                !.hit = TRUE, !.body = body, !.presize = Len(cache),
                                !.pushed = mk.pushed, !.filled = mk.filled,
                                !.invoked = mk.invoked, !.threw = mk.threw ] ]
        ELSE IF state = <<>>
        \* `event.state.url` with event.state null: a TypeError
        THEN [ url_cache |-> cache, async_keep |-> keep, hist |-> h, cur |-> c,
               fetch |-> <<>>,
               last |-> [ Did("pop", NullUrl) EXCEPT !.threw = TRUE ] ]
        ELSE IF UrlTruthy(rec.url)
        THEN [ url_cache |-> cache,
               async_keep |->
                   SetKey(keep, rec.url,
                          IF Truthy(rec.target_id) \/ Truthy(rec.action)
                          THEN makeAsyncObject(cf, StateOfRecord(rec), JSFALSE, UNDEFINED)
                          ELSE makeAsyncObject(
                                   cf,
                                   makeStateObject(rec.url, UNDEFINED, UNDEFINED, UNDEFINED),
                                   UNDEFINED, UNDEFINED)),
               hist |-> h, cur |-> c,
               fetch |-> <<rec.url>>,
               last |-> [ Did("pop", rec.url) EXCEPT
                            !.fetched = TRUE, !.presize = Len(cache) ] ]
        ELSE [ url_cache |-> cache,
               async_keep |->
                   SetKey(keep, href,
                          makeAsyncObject(
                              cf,
                              makeStateObject(href, UNDEFINED, UNDEFINED, UNDEFINED),
                              UNDEFINED, UNDEFINED)),
               hist |-> h, cur |-> c,
               fetch |-> <<href>>,
               last |-> [ Did("pop", href) EXCEPT
                            !.fetched = TRUE, !.presize = Len(cache) ] ]

(***************************************************************************)
(* The server's return.                                                    *)
(***************************************************************************)
\* conf.response_transform = JSON.parse: a SyntaxError on other text
response_transformThrows(response) ==
    ~ (Len(response) = 5 /\ response[1] = "{" /\ response[3] = ":" /\ response[5] = "}")

response_transform(response) == [ k \in {response[2]} |-> response[4] ]

\* response[conf.response_key_body], or the response when the key is false
ResponseBody(cf, response) ==
    IF cf.response_key_body \in DOMAIN response
    THEN response[cf.response_key_body]
    ELSE UNDEFINED

\* handleReturn storing the body of a return that finds no retained state
handleReturn_cacheAnyway(cf, cache, keep, h, c, response, url) ==
    IF response_transformThrows(response)
    THEN [ url_cache |-> cache, async_keep |-> keep, hist |-> h, cur |-> c,
           last |-> [ Did("return", url) EXCEPT !.threw = TRUE ] ]
    ELSE
    LET body == ResponseBody(cf, response_transform(response))
    IN  IF HasKey(keep, url)
        THEN LET state_obj == [ keep[url].state EXCEPT !.body = body ]
                 keep1 == [ keep EXCEPT ![url].state = state_obj ]
                 mk == makeStateCurrent(cf, state_obj, keep[url].record, h, c)
                 did == [ Did("return", url) EXCEPT
                            !.body = body, !.presize = Len(cache),
                            !.pushed = mk.pushed, !.filled = mk.filled,
                            !.invoked = mk.invoked ]
             IN  IF mk.threw
                 THEN [ url_cache |-> cache, async_keep |-> keep1,
                        hist |-> mk.hist, cur |-> mk.cur,
                        last |-> [ did EXCEPT !.threw = TRUE ] ]
                 ELSE
                 LET cache1 == IF Truthy(keep[url].cache)
                               THEN addBodyToCache(cf, cache, state_obj)
                               ELSE cache
                     did1 == [ did EXCEPT
                                 !.put = Truthy(keep[url].cache),
                                 !.key = IF Truthy(keep[url].cache)
                                         THEN state_obj.url ELSE NullUrl,
                                 !.touched = IF Truthy(state_obj.target_id)
                                             THEN getElementById(state_obj.target_id)
                                             ELSE NULL ]
                 IN  \* touchLinksInRegion(null) is a TypeError
                     IF Truthy(state_obj.target_id)
                        /\ getElementById(state_obj.target_id) = NULL
                     THEN [ url_cache |-> cache1, async_keep |-> keep1,
                            hist |-> mk.hist, cur |-> mk.cur,
                            last |-> [ did1 EXCEPT !.threw = TRUE ] ]
                     ELSE [ url_cache |-> cache1, async_keep |-> DelKey(keep1, url),
                            hist |-> mk.hist, cur |-> mk.cur,
                            last |-> did1 ]
        ELSE [ url_cache |-> addBodyToCache(cf, cache, [url |-> url, body |-> body]),
               async_keep |-> keep, hist |-> h, cur |-> c,
               last |-> [ Did("return", url) EXCEPT !.disaster = TRUE ] ]

handleReturn(cf, cache, keep, h, c, response, url) ==
    IF response_transformThrows(response)
    THEN [ url_cache |-> cache, async_keep |-> keep, hist |-> h, cur |-> c,
           last |-> [ Did("return", url) EXCEPT !.threw = TRUE ] ]
    ELSE
    LET body == ResponseBody(cf, response_transform(response))
    IN  IF HasKey(keep, url)
        THEN LET state_obj == [ keep[url].state EXCEPT !.body = body ]
                 keep1 == [ keep EXCEPT ![url].state = state_obj ]
                 mk == makeStateCurrent(cf, state_obj, keep[url].record, h, c)
                 did == [ Did("return", url) EXCEPT
                            !.body = body, !.presize = Len(cache),
                            !.pushed = mk.pushed, !.filled = mk.filled,
                            !.invoked = mk.invoked ]
             IN  IF mk.threw
                 THEN [ url_cache |-> cache, async_keep |-> keep1,
                        hist |-> mk.hist, cur |-> mk.cur,
                        last |-> [ did EXCEPT !.threw = TRUE ] ]
                 ELSE
                 LET cache1 == IF Truthy(keep[url].cache)
                               THEN addBodyToCache(cf, cache, state_obj)
                               ELSE cache
                     did1 == [ did EXCEPT
                                 !.put = Truthy(keep[url].cache),
                                 !.key = IF Truthy(keep[url].cache)
                                         THEN state_obj.url ELSE NullUrl,
                                 !.touched = IF Truthy(state_obj.target_id)
                                             THEN getElementById(state_obj.target_id)
                                             ELSE NULL ]
                 IN  \* touchLinksInRegion(null) is a TypeError
                     IF Truthy(state_obj.target_id)
                        /\ getElementById(state_obj.target_id) = NULL
                     THEN [ url_cache |-> cache1, async_keep |-> keep1,
                            hist |-> mk.hist, cur |-> mk.cur,
                            last |-> [ did1 EXCEPT !.threw = TRUE ] ]
                     ELSE [ url_cache |-> cache1, async_keep |-> DelKey(keep1, url),
                            hist |-> mk.hist, cur |-> mk.cur,
                            last |-> did1 ]
        ELSE [ url_cache |-> cache, async_keep |-> keep, hist |-> h, cur |-> c,
               last |-> [ Did("return", url) EXCEPT !.disaster = TRUE ] ]

(***************************************************************************)
(* Requests in flight: inflight maps a URL to the number of requests sent  *)
(* for it by requestAndHandle and not yet answered.                        *)
(***************************************************************************)
Outstanding(fl, url) == IF HasKey(fl, url) THEN fl[url] ELSE 0

\* Http.get({url: url, callback: handleReturn, send_url: true})
requestAndHandle(fl, urls) ==
    IF urls = <<>> THEN fl
    ELSE SetKey(fl, urls[1], Outstanding(fl, urls[1]) + 1)

Answered(fl, url) ==
    IF fl[url] = 1 THEN DelKey(fl, url) ELSE [fl EXCEPT ![url] = fl[url] - 1]

\* the requests sent and not answered, oldest first, with the request a
\* handler sends now; by is the handler: "click" or "pop"
Requested(sn, urls, by) ==
    IF urls = <<>> THEN sn ELSE Append(sn, [url |-> urls[1], by |-> by])

\* the i-th of them is answered
Without(sn, i) == SubSeq(sn, 1, i - 1) \o SubSeq(sn, i + 1, Len(sn))

(***************************************************************************)
(* The state machine.                                                      *)
(***************************************************************************)
\* The page has loaded and has set its cache limit with setConf; the
\* session history holds the entry of the page load.
Init ==
    \E n \in Capacities :
        LET nc == makeNewConf(DefaultConf, [cache |-> n])
        IN  /\ conf = nc.conf
            /\ bk_conf = nc.bk_conf
            /\ url_cache = <<>>
            /\ async_keep = EmptyObj
            /\ inflight = EmptyObj
            /\ sent = <<>>
            /\ hist = <<[state |-> <<>>, url |-> Location0]>>
            /\ cur = 1
            /\ seen = {}
            /\ last = Did("load", Location0)
            /\ ops = 0

\* Monopage.init(body, target, func, call)
init(body, target, func, call) ==
    \E r \in { setInitialState(conf, url_cache, hist, cur, LocationHref(hist, cur),
                                body, target, func, call) } :
        /\ url_cache' = r.url_cache
        /\ hist' = r.hist
        /\ cur' = r.cur
        /\ seen' = seen \cup {r.last.url}
        /\ last' = [ r.last EXCEPT !.touched = "document" ]
        /\ UNCHANGED <<conf, bk_conf, async_keep, inflight, sent>>

\* a click on an inbound link
click(link) ==
    \E r \in { handleClick(conf, url_cache, async_keep, hist, cur, link) } :
        /\ url_cache' = r.url_cache
        /\ async_keep' = r.async_keep
        /\ hist' = r.hist
        /\ cur' = r.cur
        /\ inflight' = requestAndHandle(inflight, r.fetch)
        /\ sent' = Requested(sent, r.fetch, "click")
        /\ last' = r.last
        /\ UNCHANGED <<conf, bk_conf, seen>>

\* the user goes back or forward to entry j: window.onpopstate
pop(j) ==
    /\ j /= cur
    /\ \E r \in { handlePop(conf, url_cache, async_keep, hist, j, hist[j].state,
                              LocationHref(hist, j)) } :
           /\ url_cache' = r.url_cache
           /\ async_keep' = r.async_keep
           /\ hist' = r.hist
           /\ cur' = r.cur
           /\ inflight' = requestAndHandle(inflight, r.fetch)
           /\ sent' = Requested(sent, r.fetch, "pop")
           /\ last' = r.last
           /\ UNCHANGED <<conf, bk_conf, seen>>

\* the server answers a request for url, any of those outstanding: Http.get
\* calls handleReturn
fetchResolved(url, response) ==
    /\ HasKey(inflight, url)
    /\ \E i \in 1 .. Len(sent) : sent[i].url = url /\ sent' = Without(sent, i)
    /\ \E r \in { handleReturn(conf, url_cache, async_keep, hist, cur, response, url) } :
           /\ url_cache' = r.url_cache
           /\ async_keep' = r.async_keep
           /\ hist' = r.hist
           /\ cur' = r.cur
           /\ inflight' = Answered(inflight, url)
           /\ seen' = seen \cup {url}
           /\ last' = r.last
           /\ UNCHANGED <<conf, bk_conf>>

\* one more handler call
Step == ops < MaxOps /\ ops' = ops + 1

Initialize == \E a \in InitArgs : Step /\ init(a[1], a[2], a[3], a[4])

Click == \E link \in Links : Step /\ click(link)

Pop == \E j \in 1 .. Len(hist) : Step /\ pop(j)

FetchResolved ==
    \E url \in DOMAIN inflight, response \in Responses :
        Step /\ fetchResolved(url, response)

Next == Initialize \/ Click \/ Pop \/ FetchResolved

Spec == Init /\ [][Next]_vars

(***************************************************************************)
(* The same program on a page that links to its own URL: the user can      *)
(* click a link to the page the session started on and go back to it.      *)
(***************************************************************************)
\* handler calls in a run of this page
MaxHomeOps == 6

HomeLinks ==
    { Link(<<"/", "a">>, "page", NULL, FALSE, FALSE),
      Link(<<"/">>, "page", NULL, FALSE, FALSE) }

HomeInitArgs == { <<"x", "page", NULL, FALSE>> }

HomeStep == ops < MaxHomeOps /\ ops' = ops + 1

HomeInitialize == \E a \in HomeInitArgs : HomeStep /\ init(a[1], a[2], a[3], a[4])

HomeClick == \E link \in HomeLinks : HomeStep /\ click(link)

HomePop == \E j \in 1 .. Len(hist) : HomeStep /\ pop(j)

HomeFetchResolved ==
    \E url \in DOMAIN inflight, response \in Responses :
        HomeStep /\ fetchResolved(url, response)

HomeNext == HomeInitialize \/ HomeClick \/ HomePop \/ HomeFetchResolved

SpecHome == Init /\ [][HomeNext]_vars

(***************************************************************************)
(* The same program with its settings changed while it runs: the page      *)
(* calls setConf and resetConf between the other calls.                     *)
(***************************************************************************)
\* handler and settings calls in a run with changing settings
MaxConfOps == 6

ConfLinks ==
    { Link(<<"/", "a">>, "page", NULL, FALSE, FALSE),
      Link(<<"b">>, "page", NULL, FALSE, FALSE) }

ConfInitArgs == { <<"x", "page", NULL, FALSE>> }

\* the objects handed to setConf
ConfObjs == { [cache |-> n] : n \in Capacities }

\* the module as it is built: the default settings and no backup
InitConf ==
    /\ conf = DefaultConf
    /\ bk_conf = <<>>
    /\ url_cache = <<>>
    /\ async_keep = EmptyObj
    /\ inflight = EmptyObj
    /\ sent = <<>>
    /\ hist = <<[state |-> <<>>, url |-> Location0]>>
    /\ cur = 1
    /\ seen = {}
    /\ last = Did("load", Location0)
    /\ ops = 0

\* Monopage.setConf(new_conf)
setConf(conf_obj) ==
    \E r \in { makeNewConf(conf, conf_obj) } :
        /\ conf' = r.conf
        /\ bk_conf' = r.bk_conf
        /\ last' = Did("setConf", NullUrl)
        /\ UNCHANGED <<url_cache, async_keep, inflight, sent, hist, cur, seen>>

\* Monopage.resetConf()
resetConf ==
    \E r \in { resetConfToDefault(conf, bk_conf) } :
        /\ conf' = r.conf
        /\ bk_conf' = r.bk_conf
        /\ last' = Did("resetConf", NullUrl)
        /\ UNCHANGED <<url_cache, async_keep, inflight, sent, hist, cur, seen>>

ConfStep == ops < MaxConfOps /\ ops' = ops + 1

SetConf == \E conf_obj \in ConfObjs : ConfStep /\ setConf(conf_obj)

ResetConf == ConfStep /\ resetConf

ConfInitialize == \E a \in ConfInitArgs : ConfStep /\ init(a[1], a[2], a[3], a[4])

ConfClick == \E link \in ConfLinks : ConfStep /\ click(link)

ConfPop == \E j \in 1 .. Len(hist) : ConfStep /\ pop(j)

ConfFetchResolved ==
    \E url \in DOMAIN inflight, response \in Responses :
        ConfStep /\ fetchResolved(url, response)

ConfNext ==
    SetConf \/ ResetConf \/ ConfInitialize \/ ConfClick \/ ConfPop \/ ConfFetchResolved

SpecConf == InitConf /\ [][ConfNext]_vars

(***************************************************************************)
(* The same program with the page calling Monopage.pop itself, with an     *)
(* event whose state the page has made.                                     *)
(***************************************************************************)
\* handler calls in a run with events made by the page
MaxEventOps == 5

\* the states of the events handed to Monopage.pop: one URL in its
\* relative and in its absolute form, and a second relative URL
EventRecords ==
    { [ target_id |-> "page", action |-> NULL, url |-> u ] :
        u \in { <<"/", "a">>, Origin \o <<"/", "a">>, <<"b">> } }

\* Monopage.pop(evt) with evt.state = rec: the browser has not moved in
\* the history
popEvent(rec) ==
    \E r \in { handlePop(conf, url_cache, async_keep, hist, cur, <<rec>>,
                          LocationHref(hist, cur)) } :
        /\ url_cache' = r.url_cache
        /\ async_keep' = r.async_keep
        /\ hist' = r.hist
        /\ cur' = r.cur
        /\ inflight' = requestAndHandle(inflight, r.fetch)
        /\ sent' = Requested(sent, r.fetch, "pop")
        /\ last' = r.last
        /\ UNCHANGED <<conf, bk_conf, seen>>

EventStep == ops < MaxEventOps /\ ops' = ops + 1

EventInitialize == \E a \in ConfInitArgs : EventStep /\ init(a[1], a[2], a[3], a[4])

EventClick == \E link \in ConfLinks : EventStep /\ click(link)

EventPop == \E j \in 1 .. Len(hist) : EventStep /\ pop(j)

EventPopCall == \E rec \in EventRecords : EventStep /\ popEvent(rec)

EventFetchResolved ==
    \E url \in DOMAIN inflight, response \in Responses :
        EventStep /\ fetchResolved(url, response)

EventNext ==
    EventInitialize \/ EventClick \/ EventPop \/ EventPopCall \/ EventFetchResolved

SpecEvent == Init /\ [][EventNext]_vars

(***************************************************************************)
(* The same program on a page whose function `handler` calls               *)
(* Monopage.click on one of the page's links, with a link and an init     *)
(* call that name a function the page does not have, and with a link whose *)
(* target is the id of no element.                                          *)
(***************************************************************************)
\* handler calls in a run of that page
MaxActOps == 5

\* the link the page's `handler` clicks
HandlerLink == Link(<<"/", "a">>, "page", NULL, FALSE, FALSE)

ActLinks ==
    { HandlerLink,
      Link(<<"/", "a">>, "page", "handler", FALSE, FALSE),
      Link(<<"b">>, "page", "missing", FALSE, FALSE),
      Link(<<"b">>, "gone", NULL, FALSE, FALSE) }

ActInitArgs == { <<"x", "page", NULL, FALSE>>, <<"x", "page", "missing", TRUE>> }

\* fx(state_obj) as the last statement of a handler: when the function
\* called is `handler`, handleClick runs on the link it clicks, on the
\* state the handler has made; r is the handler's result
thenClick(cf, r, link) ==
    IF r.last.invoked = "handler"
    THEN LET nc == handleClick(cf, r.url_cache, r.async_keep, r.hist, r.cur, link)
         IN  [ url_cache |-> nc.url_cache, async_keep |-> nc.async_keep,
               hist |-> nc.hist, cur |-> nc.cur,
               fetch |-> r.fetch \o nc.fetch,
               last |-> r.last ]
    ELSE r

\* handleReturn on that page: `handler` runs inside makeStateCurrent, and
\* the statements after makeStateCurrent read async_keep[url] again
handleReturnCalling(cf, cache, keep, h, c, response, url, link) ==
    LET r0 == handleReturn(cf, cache, keep, h, c, response, url)
    IN  IF r0.last.invoked /= "handler"
        THEN [ url_cache |-> r0.url_cache, async_keep |-> r0.async_keep,
               hist |-> r0.hist, cur |-> r0.cur, fetch |-> <<>>,
               last |-> r0.last ]
        ELSE
        LET body == ResponseBody(cf, response_transform(response))
            state_obj == [ keep[url].state EXCEPT !.body = body ]
            keep1 == [ keep EXCEPT ![url].state = state_obj ]
            mk == makeStateCurrent(cf, state_obj, keep[url].record, h, c)
            nc == handleClick(cf, cache, keep1, mk.hist, mk.cur, link)
            entry == nc.async_keep[url]
            cache1 == IF Truthy(entry.cache)
                      THEN addBodyToCache(cf, nc.url_cache, entry.state)
                      ELSE nc.url_cache
            did1 == [ r0.last EXCEPT
                        !.put = Truthy(entry.cache),
                        !.key = IF Truthy(entry.cache) THEN entry.state.url ELSE NullUrl,
                        !.body = IF Truthy(entry.cache) THEN entry.state.body ELSE body,
                        !.threw = /\ Truthy(entry.state.target_id)
                                  /\ getElementById(entry.state.target_id) = NULL,
                        !.touched = IF Truthy(entry.state.target_id)
                                    THEN getElementById(entry.state.target_id)
                                    ELSE NULL ]
        IN  [ url_cache |-> cache1,
              async_keep |-> IF did1.threw THEN nc.async_keep
                             ELSE DelKey(nc.async_keep, url),
              hist |-> nc.hist, cur |-> nc.cur,
              fetch |-> nc.fetch,
              last |-> did1 ]

actClick(link) ==
    \E r \in { thenClick(conf, handleClick(conf, url_cache, async_keep, hist, cur, link),
                          HandlerLink) } :
        /\ url_cache' = r.url_cache
        /\ async_keep' = r.async_keep
        /\ hist' = r.hist
        /\ cur' = r.cur
        /\ inflight' = requestAndHandle(inflight, r.fetch)
        /\ sent' = Requested(sent, r.fetch, "click")
        /\ last' = r.last
        /\ UNCHANGED <<conf, bk_conf, seen>>

actPop(j) ==
    /\ j /= cur
    /\ \E r \in { thenClick(conf,
                            handlePop(conf, url_cache, async_keep, hist, j,
                                      hist[j].state, LocationHref(hist, j)),
                            HandlerLink) } :
           /\ url_cache' = r.url_cache
           /\ async_keep' = r.async_keep
           /\ hist' = r.hist
           /\ cur' = r.cur
           /\ inflight' = requestAndHandle(inflight, r.fetch)
           /\ sent' = Requested(sent, r.fetch, IF r.last.fetched THEN "pop" ELSE "click")
           /\ last' = r.last
           /\ UNCHANGED <<conf, bk_conf, seen>>

actFetchResolved(url, response) ==
    /\ HasKey(inflight, url)
    /\ \E r \in { handleReturnCalling(conf, url_cache, async_keep, hist, cur,
                                        response, url, HandlerLink) } :
           /\ url_cache' = r.url_cache
           /\ async_keep' = r.async_keep
           /\ hist' = r.hist
           /\ cur' = r.cur
           /\ inflight' = requestAndHandle(Answered(inflight, url), r.fetch)
           /\ \E i \in 1 .. Len(sent) :
                  /\ sent[i].url = url
                  /\ sent' = Requested(Without(sent, i), r.fetch, "click")
           /\ seen' = seen \cup {url}
           /\ last' = r.last
           /\ UNCHANGED <<conf, bk_conf>>

ActStep == ops < MaxActOps /\ ops' = ops + 1

ActInitialize == \E a \in ActInitArgs : ActStep /\ init(a[1], a[2], a[3], a[4])

ActClick == \E link \in ActLinks : ActStep /\ actClick(link)

ActPop == \E j \in 1 .. Len(hist) : ActStep /\ actPop(j)

ActFetchResolved ==
    \E url \in DOMAIN inflight, response \in Responses :
        ActStep /\ actFetchResolved(url, response)

ActNext == ActInitialize \/ ActClick \/ ActPop \/ ActFetchResolved

SpecAct == Init /\ [][ActNext]_vars

(***************************************************************************)
(* The second module of monopage.js: an earlier Monopage that retains one  *)
(* state for all requests. async_keep is one object with the properties    *)
(* state and record, {} when nothing is retained; its cache has no limit.  *)
(* makeStateObject, makeStateObjectFromLink, getBodyFromCache,             *)
(* getStateTarget, shouldMakeHistory, prepStateForHistory and              *)
(* pushStateToHistory read the same in both modules.                       *)
(***************************************************************************)
\* handler calls in a run of the second module
MaxSlotOps == 5

\* `var conf` of the second module; only the settings the handlers branch on
SlotConf ==
    [ default_target_id |-> JSFALSE,
      default_instater |-> JSFALSE,
      response_key_body |-> "body" ]

fixUrl(url) ==
    IF substring(url, 6) = substring(Origin, 6) THEN url
    ELSE IF Len(url) > 0 /\ url[1] = "/" THEN Origin \o url
    ELSE Origin \o <<"/">> \o url

clearAsync == EmptyObj

\* addBodyToCache storing nothing
addBodyToCacheSlot_none(cache, state_obj) == cache

\* addBodyToCache of the second module: no limit
addBodyToCacheSlot(cache, state_obj) ==
    CacheAssign(cache, state_obj.url, state_obj.body)

\* getStateAction of the second module; default_instater is false or a
\* function's name
getStateActionSlot(cf, state_obj) ==
    IF Truthy(state_obj.action) THEN state_obj.action
    ELSE IF Truthy(cf.default_instater) THEN cf.default_instater
    ELSE NULL

makeStateCurrentSlot(cf, state_obj, record, h, c) ==
    LET target == getStateTarget(cf, state_obj)
        func == getStateActionSlot(cf, state_obj)
        br == IF record THEN pushStateToHistory(h, c, state_obj)
              ELSE [hist |-> h, cur |-> c]
    IN  [ hist |-> br.hist,
          cur |-> br.cur,
          pushed |-> record,
          filled |-> target,
          invoked |-> IF Truthy(func) /\ func \in Callables THEN func ELSE NULL,
          threw |-> Truthy(func) /\ func \notin Callables ]

setInitialStateSlot(cf, cache, h, c, url, body, target_id, func, call_func) ==
    LET state_obj == makeStateObject(url, body, target_id, func)
        br == replaceState(h, c, prepStateForHistory(state_obj), state_obj.url)
        mk == makeStateCurrentSlot(cf, state_obj, FALSE, br.hist, br.cur)
    IN  [ url_cache |-> addBodyToCacheSlot(cache, state_obj),
          hist |-> IF call_func THEN mk.hist ELSE br.hist,
          cur |-> IF call_func THEN mk.cur ELSE br.cur,
          last |-> [ Did("init", state_obj.url) EXCEPT
                       !.replaced = TRUE,
                       !.put = TRUE,
                       !.key = state_obj.url,
                       !.body = body,
                       !.presize = Len(cache),
                       !.filled = IF call_func THEN mk.filled ELSE NULL,
                       !.invoked = IF call_func THEN mk.invoked ELSE NULL,
                       !.threw = call_func /\ mk.threw ] ]

\* state is event.state: <<>> for null, else <<record>>; href is
\* window.location.href when the event fires
handlePopSlot(cf, cache, keep, h, c, state, href) ==
    LET rec == state[1]
        body == getBodyFromCache(cache, fixUrl(rec.url))
    IN  IF state /= <<>> /\ Truthy(body)
        THEN LET state_obj == makeStateObject(rec.url, body, rec.target_id, rec.action)
                 mk == makeStateCurrentSlot(cf, state_obj, FALSE, h, c)
             IN  [ url_cache |-> cache, async_keep |-> keep,
                   hist |-> mk.hist, cur |-> mk.cur, fetch |-> <<>>,
                   last |-> [ Did("pop", rec.url) EXCEPT
                                !.hit = TRUE, !.body = body, !.presize = Len(cache),
                                !.pushed = mk.pushed, !.filled = mk.filled,
                                !.invoked = mk.invoked, !.threw = mk.threw ] ]
        ELSE IF state = <<>>
        \* `event.state.url` with event.state null: a TypeError
        THEN [ url_cache |-> cache, async_keep |-> keep, hist |-> h, cur |-> c,
               fetch |-> <<>>,
               last |-> [ Did("pop", NullUrl) EXCEPT !.threw = TRUE ] ]
        ELSE IF UrlTruthy(rec.url) /\ Truthy(rec.action)
        THEN [ url_cache |-> cache,
               async_keep |-> SetKey(SetKey(keep, "state", StateOfRecord(rec)),
                                     "record", FALSE),
               hist |-> h, cur |-> c,
               fetch |-> <<rec.url>>,
               last |-> [ Did("pop", rec.url) EXCEPT
                            !.fetched = TRUE, !.presize = Len(cache) ] ]
        ELSE [ url_cache |-> cache, async_keep |-> keep,
               hist |-> h, cur |-> c,
               fetch |-> <<href>>,
               last |-> [ Did("pop", href) EXCEPT
                            !.fetched = TRUE, !.presize = Len(cache) ] ]

handleClickSlot(cf, cache, keep, h, c, link) ==
    \* fixUrl(null) is a TypeError: null has no substring
    IF LinkUrl(link) = NullUrl
    THEN [ url_cache |-> cache, async_keep |-> keep, hist |-> h, cur |-> c,
           fetch |-> <<>>,
           last |-> [ Did("click", NullUrl) EXCEPT
                        !.prevented = TRUE, !.threw = TRUE ] ]
    ELSE
    LET fixed_url == fixUrl(link.href)
        body == getBodyFromCache(cache, fixed_url)
        did == [ Did("click", fixed_url) EXCEPT
                   !.prevented = TRUE, !.presize = Len(cache) ]
    IN  IF Truthy(body)
        THEN LET state_obj == [ makeStateObjectFromLink(link) EXCEPT !.body = body ]
                 mk == makeStateCurrentSlot(cf, state_obj,
                                            Truthy(shouldMakeHistory(link)), h, c)
             IN  [ url_cache |-> cache, async_keep |-> keep,
                   hist |-> mk.hist, cur |-> mk.cur, fetch |-> <<>>,
                   last |-> [ did EXCEPT
                                !.hit = TRUE, !.body = body,
                                !.pushed = mk.pushed, !.filled = mk.filled,
                                !.invoked = mk.invoked, !.threw = mk.threw ] ]
        ELSE [ url_cache |-> cache,
               async_keep |-> SetKey(SetKey(keep, "state", makeStateObjectFromLink(link)),
                                     "record", Truthy(shouldMakeHistory(link))),
               hist |-> h, cur |-> c,
               fetch |-> <<fixed_url>>,
               last |-> [ did EXCEPT !.fetched = TRUE ] ]

\* handleReturn(response) of the second module: the callback is not given
\* the URL of the request; url is the request this response answers, kept
\* in `last` only
handleReturnSlot(cf, cache, keep, h, c, response, url) ==
    IF response_transformThrows(response)
    THEN [ url_cache |-> cache, async_keep |-> keep, hist |-> h, cur |-> c,
           last |-> [ Did("return", url) EXCEPT !.threw = TRUE ] ]
    ELSE
    LET body == ResponseBody(cf, response_transform(response))
    IN  IF HasKey(keep, "state")
        THEN LET state_obj == [ keep.state EXCEPT !.body = body ]
                 keep1 == [ keep EXCEPT !.state = state_obj ]
                 mk == makeStateCurrentSlot(cf, state_obj, keep.record, h, c)
                 did == [ Did("return", url) EXCEPT
                            !.body = body, !.presize = Len(cache),
                            !.pushed = mk.pushed, !.filled = mk.filled,
                            !.invoked = mk.invoked ]
             IN  IF mk.threw
                 THEN [ url_cache |-> cache, async_keep |-> keep1,
                        hist |-> mk.hist, cur |-> mk.cur,
                        last |-> [ did EXCEPT !.threw = TRUE ] ]
                 ELSE
                 LET cache1 == addBodyToCacheSlot(cache, state_obj)
                     did1 == [ did EXCEPT
                                 !.put = TRUE,
                                 !.key = state_obj.url,
                                 !.touched = IF Truthy(state_obj.target_id)
                                             THEN getElementById(state_obj.target_id)
                                             ELSE NULL ]
                 IN  \* touchLinksInRegion(null) is a TypeError
                     IF Truthy(state_obj.target_id)
                        /\ getElementById(state_obj.target_id) = NULL
                     THEN [ url_cache |-> cache1, async_keep |-> keep1,
                            hist |-> mk.hist, cur |-> mk.cur,
                            last |-> [ did1 EXCEPT !.threw = TRUE ] ]
                     ELSE [ url_cache |-> cache1, async_keep |-> clearAsync,
                            hist |-> mk.hist, cur |-> mk.cur,
                            last |-> did1 ]
        ELSE [ url_cache |-> cache, async_keep |-> keep, hist |-> h, cur |-> c,
               last |-> [ Did("return", url) EXCEPT !.disaster = TRUE ] ]

SlotLinks ==
    { Link(<<"/", "a">>, "page", "handler", FALSE, FALSE),
      Link(<<"b">>, "page", NULL, FALSE, FALSE) }

\* the states of the events the page hands to Monopage.pop
SlotRecords ==
    { [ target_id |-> "page", action |-> "handler", url |-> Origin \o <<"/", "a">> ] }

\* the second module as it is built
InitSlot ==
    /\ conf = SlotConf
    /\ bk_conf = <<>>
    /\ url_cache = <<>>
    /\ async_keep = EmptyObj
    /\ inflight = EmptyObj
    /\ sent = <<>>
    /\ hist = <<[state |-> <<>>, url |-> Location0]>>
    /\ cur = 1
    /\ seen = {}
    /\ last = Did("load", Location0)
    /\ ops = 0

slotInit(body, target, func, call) ==
    \E r \in { setInitialStateSlot(conf, url_cache, hist, cur, LocationHref(hist, cur),
                                    body, target, func, call) } :
        /\ url_cache' = r.url_cache
        /\ hist' = r.hist
        /\ cur' = r.cur
        /\ seen' = seen \cup {r.last.url}
        /\ last' = [ r.last EXCEPT !.touched = "document" ]
        /\ UNCHANGED <<conf, bk_conf, async_keep, inflight, sent>>

slotClick(link) ==
    \E r \in { handleClickSlot(conf, url_cache, async_keep, hist, cur, link) } :
        /\ url_cache' = r.url_cache
        /\ async_keep' = r.async_keep
        /\ hist' = r.hist
        /\ cur' = r.cur
        /\ inflight' = requestAndHandle(inflight, r.fetch)
        /\ sent' = Requested(sent, r.fetch, "click")
        /\ last' = r.last
        /\ UNCHANGED <<conf, bk_conf, seen>>

\* the browser moves to entry j and fires popstate
slotPop(j) ==
    /\ j /= cur
    /\ \E r \in { handlePopSlot(conf, url_cache, async_keep, hist, j, hist[j].state,
                                  LocationHref(hist, j)) } :
           /\ url_cache' = r.url_cache
           /\ async_keep' = r.async_keep
           /\ hist' = r.hist
           /\ cur' = r.cur
           /\ inflight' = requestAndHandle(inflight, r.fetch)
           /\ sent' = Requested(sent, r.fetch, "pop")
           /\ last' = r.last
           /\ UNCHANGED <<conf, bk_conf, seen>>

\* Monopage.pop(evt) with evt.state = rec
slotPopEvent(rec) ==
    \E r \in { handlePopSlot(conf, url_cache, async_keep, hist, cur, <<rec>>,
                              LocationHref(hist, cur)) } :
        /\ url_cache' = r.url_cache
        /\ async_keep' = r.async_keep
        /\ hist' = r.hist
        /\ cur' = r.cur
        /\ inflight' = requestAndHandle(inflight, r.fetch)
        /\ sent' = Requested(sent, r.fetch, "pop")
        /\ last' = r.last
        /\ UNCHANGED <<conf, bk_conf, seen>>

slotFetchResolved(url, response) ==
    /\ HasKey(inflight, url)
    /\ \E i \in 1 .. Len(sent) : sent[i].url = url /\ sent' = Without(sent, i)
    /\ \E r \in { handleReturnSlot(conf, url_cache, async_keep, hist, cur,
                                     response, url) } :
           /\ url_cache' = r.url_cache
           /\ async_keep' = r.async_keep
           /\ hist' = r.hist
           /\ cur' = r.cur
           /\ inflight' = Answered(inflight, url)
           /\ seen' = seen \cup {url}
           /\ last' = r.last
           /\ UNCHANGED <<conf, bk_conf>>

SlotStep == ops < MaxSlotOps /\ ops' = ops + 1

SlotInitialize == \E a \in ConfInitArgs : SlotStep /\ slotInit(a[1], a[2], a[3], a[4])

SlotClick == \E link \in SlotLinks : SlotStep /\ slotClick(link)

SlotPop == \E j \in 1 .. Len(hist) : SlotStep /\ slotPop(j)

SlotPopCall == \E rec \in SlotRecords : SlotStep /\ slotPopEvent(rec)

SlotFetchResolved ==
    \E url \in DOMAIN inflight, response \in Responses :
        SlotStep /\ slotFetchResolved(url, response)

SlotNext ==
    SlotInitialize \/ SlotClick \/ SlotPop \/ SlotPopCall \/ SlotFetchResolved

SpecSlot == InitSlot /\ [][SlotNext]_vars

(***************************************************************************)
(* Properties.                                                             *)
(***************************************************************************)
\* the URLs the page can ask for: where it loaded, and its links
AllUrls ==
    { Location0 } \cup { prefixUrl(l.href) : l \in { k \in Links : k.href /= NullUrl } }

\* C1: at most one request is outstanding per normalized URL: a click on a
\* URL whose request is still outstanding sends no second request.
C1_SingleFlight ==
    \A u \in DOMAIN inflight : inflight[u] <= 1

\* C2: a click on a URL that has a pending entry leaves that entry as the
\* first navigation made it: state (target_id, action), record and cache.
C2_PendingEntryKept ==
    [][ (last'.op = "click" /\ HasKey(async_keep, last'.url))
        => ( /\ HasKey(async_keep', last'.url)
             /\ async_keep'[last'.url] = async_keep[last'.url] ) ]_vars

\* C3: under a positive cache limit n, with n keys in the cache, storing a
\* new key removes the oldest key and stores the new one with its body
\* (limit 2: A, B, C in this order leave B, C).
C3_FifoEviction ==
    [][ ( /\ conf.cache > 0
          /\ last'.put
          /\ Len(url_cache) = conf.cache
          /\ last'.key \notin CacheKeys(url_cache) )
        => url_cache' = Append(Tail(url_cache),
                               [url |-> last'.key, body |-> last'.body]) ]_vars

\* C4: with a positive cache limit n the cache never holds more than n
\* distinct keys.
C4_CacheBounded ==
    conf.cache > 0 => Cardinality(CacheKeys(url_cache)) <= conf.cache

\* a body was to be stored while the cache, of limit 2, was full
C4_Witness ==
    conf.cache = 2 /\ last.put /\ last.presize = 2

\* C5: with cache limit 0 the cache is always empty and every click misses
\* the cache.
C5_DisabledCacheEmpty ==
    conf.cache = 0 => (url_cache = <<>> /\ (last.op = "click" => ~ last.hit))

\* with limit 0: a click on a URL whose body the server has already
\* returned, after init, sends a request again
C5_Witness ==
    /\ conf.cache = 0
    /\ last.op = "click" /\ last.fetched
    /\ last.url \in seen /\ Location0 \in seen

\* C6: after a body b is stored under u with no limit, or with a positive
\* limit the cache has not reached, the cache returns b for u.
C6_PutThenGet ==
    ( /\ last.put
      /\ (conf.cache < 0 \/ (conf.cache > 0 /\ last.presize < conf.cache)) )
    => getBodyFromCache(url_cache, last.key) = last.body

\* a returned body was stored in a cache of limit 2 that held one entry
C6_Witness ==
    /\ conf.cache = 2 /\ last.op = "return" /\ last.put /\ last.presize = 1
    /\ last.body = "x"

\* C7: the cache returns nothing for a URL that was neither init's URL nor
\* the URL of a server return that was handled.
C7_OnlySeenCached ==
    \A u \in (AllUrls \cup CacheKeys(url_cache)) \ seen :
        getBodyFromCache(url_cache, u) = JSFALSE

\* the cache holds a body while a request for a URL never handled before is
\* outstanding
C7_Witness ==
    url_cache /= <<>> /\ \E u \in DOMAIN inflight : u \notin seen

\* C8: every state written to the history holds url, target_id and action
\* and nothing else; the body is never part of it.
C8_HistoryRecordShape ==
    \A i \in 1 .. Len(hist) :
        hist[i].state /= <<>>
        => DOMAIN hist[i].state[1] = { "url", "target_id", "action" }

\* the history holds a state written by init and one pushed for a state
\* with a body
C8_Witness ==
    /\ Len(hist) >= 2
    /\ \A i \in 1 .. Len(hist) : hist[i].state /= <<>>
    /\ last.pushed /\ last.body = "x"

\* C9: init replaces the current history entry and pushes nothing (the
\* history keeps its length); a click, a pop or a server return never
\* replaces an entry: it leaves the history as it is or pushes one entry
\* after the current one.
C9_ReplaceOnlyInInit ==
    [][ /\ last'.op = "init"
           => /\ Len(hist') = Len(hist)
              /\ cur' = cur
              /\ hist'[cur].state /= <<>>
              /\ hist'[cur].url = last'.url
              /\ \A i \in 1 .. Len(hist) : i /= cur => hist'[i] = hist[i]
        /\ last'.op /= "init"
           => \/ hist' = hist
              \/ /\ Len(hist') = cur + 1
                 /\ cur' = cur + 1
                 /\ SubSeq(hist', 1, cur) = SubSeq(hist, 1, cur) ]_vars

\* init has run, calling the state's function, on the second of two entries
C9_Witness ==
    last.op = "init" /\ last.invoked = "handler" /\ Len(hist) = 2 /\ cur = 2

\* C10: with a cache limit other than 0, after init(body, ...) the cache
\* holds body under the current URL, also when the cache was full.
C10_InitCaches ==
    (last.op = "init" /\ conf.cache /= 0)
    => getBodyFromCache(url_cache, last.url) = last.body

\* C11: init makes its state current (the target element is filled with the
\* body, the state's function is called) exactly when its call argument is
\* true; with call false no element is written and no function is called;
\* either way init pushes nothing to the history.
C11_InitInstatesOnCall ==
    [][ \A a \in InitArgs :
          (last'.op = "init" /\ init(a[1], a[2], a[3], a[4]))
          => /\ Len(hist') = Len(hist) /\ cur' = cur /\ ~ last'.pushed
             /\ a[4] => /\ last'.filled = (IF a[2] = NULL THEN NULL ELSE a[2])
                        /\ last'.invoked = a[3]
                        /\ last'.filled /= NULL \/ last'.invoked /= NULL
             /\ ~ a[4] => (last'.filled = NULL /\ last'.invoked = NULL) ]_vars

\* init was called with call true on the second of two history entries and
\* filled the page element with its body
C11_Witness ==
    /\ last.op = "init" /\ last.filled = "page" /\ last.body = "x"
    /\ Len(hist) = 2 /\ cur = 2

\* C12: a click on a link whose URL is in the cache with a non-empty body
\* is handled at once: the state of the link's attributes with the cached
\* body is made current, a record {url, target_id, action} is pushed when
\* and only when the link has not the nohist class, no request is sent and
\* no state is retained for a return.
C12_CachedClickSynchronous ==
    [][ \A link \in Links :
          ( /\ last'.op = "click"
            /\ link.href /= NullUrl
            /\ Truthy(getBodyFromCache(url_cache, prefixUrl(link.href)))
            /\ click(link) )
          => LET u == prefixUrl(link.href)
             IN  /\ sent' = sent /\ inflight' = inflight
                 /\ async_keep' = async_keep
                 /\ url_cache' = url_cache
                 /\ last'.body = getBodyFromCache(url_cache, u)
                 /\ last'.filled = (IF link.target = NULL THEN NULL
                                    ELSE getElementById(link.target))
                 /\ last'.invoked = link.onreturn
                 /\ IF link.nohist
                    THEN hist' = hist /\ cur' = cur
                    ELSE /\ cur' = cur + 1
                         /\ hist' = Append(SubSeq(hist, 1, cur),
                                           [ state |-> << [ url |-> u,
                                                            target_id |-> link.target,
                                                            action |-> link.onreturn ] >>,
                                             url |-> u ]) ]_vars

\* a click on a nohist link found its URL in the cache: the function was
\* called and nothing was pushed
C12_Witness ==
    /\ last.op = "click" /\ last.hit /\ last.body = "x"
    /\ last.invoked = "handler" /\ ~ last.pushed /\ ~ last.fetched

\* the state retained by a click on `link` for the return of url, its cache
\* flag being `cache`
ClickEntry(link, url, cache) ==
    [ state |-> [ target_id |-> link.target, url |-> url,
                  action |-> link.onreturn, body |-> NULL ],
      record |-> ~ link.nohist,
      cache |-> JSBool(cache) ]

\* a click on `link`, whose URL is not in the cache and has no retained
\* state, has retained `entry`, sent one request for the URL and changed
\* neither the history, the cache nor the document
ClickRetains(link, entry) ==
    LET u == prefixUrl(link.href)
    IN  /\ HasKey(async_keep', u) /\ async_keep'[u] = entry
        /\ \A v \in DOMAIN async_keep : async_keep'[v] = async_keep[v]
        /\ DOMAIN async_keep' = DOMAIN async_keep \cup {u}
        /\ sent' = Append(sent, [url |-> u, by |-> "click"])
        /\ inflight' = SetKey(inflight, u, Outstanding(inflight, u) + 1)
        /\ hist' = hist /\ cur' = cur
        /\ url_cache' = url_cache
        /\ last'.filled = NULL /\ last'.invoked = NULL

\* the step is a click on `link`, its URL neither in the cache nor retained
UncachedClick(link) ==
    /\ last'.op = "click"
    /\ link.href /= NullUrl
    /\ prefixUrl(link.href) \notin CacheKeys(url_cache)
    /\ ~ HasKey(async_keep, prefixUrl(link.href))
    /\ click(link)

\* C13 as stated: a click on an uncached URL u with no retained state for u
\* retains a state keyed by u, without body, with record = not nohist and
\* cache = not nocache, sends exactly one request for u and changes neither
\* the history, the cache nor the document.
C13_UncachedClickAsStated ==
    [][ \A link \in Links :
          UncachedClick(link)
          => ClickRetains(link,
                 ClickEntry(link, prefixUrl(link.href), ~ link.nocache)) ]_vars

\* C13 amended: the same, the cache flag being: not nocache and the cache
\* limit is not 0.
C13_UncachedClickRetains ==
    [][ \A link \in Links :
          UncachedClick(link)
          => ClickRetains(link,
                 ClickEntry(link, prefixUrl(link.href),
                            ~ link.nocache /\ conf.cache /= 0)) ]_vars

\* with cache limit 0 a click on a link without the nocache class has
\* retained a state whose cache flag is false
C13_Witness ==
    /\ conf.cache = 0 /\ last.op = "click" /\ last.fetched
    /\ HasKey(async_keep, last.url)
    /\ async_keep[last.url].state.action = NULL
    /\ async_keep[last.url].record
    /\ async_keep[last.url].cache = JSFALSE

\* the history with the record of state `st` pushed after the current entry
Pushed(h, c, st) ==
    Append(SubSeq(h, 1, c),
           [ state |-> << [ url |-> st.url, target_id |-> st.target_id,
                            action |-> st.action ] >>,
             url |-> st.url ])

\* C14: when the server's return for u finds a retained state, that state
\* is made current with the body taken from the response (the target is
\* filled, the function called), and the record {url, target_id, action} is
\* pushed to the history when and only when the retained record flag is
\* true.
C14_ReturnInstates ==
    [][ \A u \in DOMAIN async_keep, b \in Bodies :
          (last'.op = "return" /\ fetchResolved(u, Raw(b)))
          => LET e == async_keep[u]
             IN  /\ last'.body = b
                 /\ last'.filled = (IF Truthy(e.state.target_id)
                                    THEN getElementById(e.state.target_id)
                                    ELSE NULL)
                 /\ last'.invoked = (IF Truthy(e.state.action)
                                     THEN e.state.action ELSE NULL)
                 /\ last'.pushed = e.record
                 /\ IF e.record
                    THEN hist' = Pushed(hist, cur, e.state) /\ cur' = cur + 1
                    ELSE hist' = hist /\ cur' = cur ]_vars

\* the return for a click on a nohist link was handled: the function was
\* called with the body and nothing was pushed, after an earlier return
\* had pushed its record
C14_Witness ==
    /\ last.op = "return" /\ last.body = "x" /\ last.invoked = "handler"
    /\ ~ last.pushed /\ ~ last.threw /\ Len(hist) = 2

\* C15: when the server's return for u finds a retained state, the body is
\* in the cache under u afterwards when the retained cache flag is set, and
\* the cache is left as it was when the flag is not set (a nocache link);
\* a return for a nohist link without nocache is cached like any other.
C15_ReturnCachesByFlag ==
    [][ \A u \in DOMAIN async_keep, b \in Bodies :
          (last'.op = "return" /\ fetchResolved(u, Raw(b)))
          => IF Truthy(async_keep[u].cache)
             THEN getBodyFromCache(url_cache', u) = b
             ELSE url_cache' = url_cache ]_vars

\* C16: a server return for u that finds no retained state for u is
\* reported (the DISASTER message, when the response parses) and dropped:
\* the history, the cache, the retained states and the document are as
\* before and no function is called.
C16_ReturnWithoutEntryDropped ==
    [][ \A u \in DOMAIN inflight, r \in Responses :
          ( /\ last'.op = "return"
            /\ ~ HasKey(async_keep, u)
            /\ fetchResolved(u, r) )
          => /\ hist' = hist /\ cur' = cur
             /\ url_cache' = url_cache
             /\ async_keep' = async_keep
             /\ last'.filled = NULL /\ last'.invoked = NULL
             /\ ~ last'.pushed /\ ~ last'.put
             /\ r /= Malformed => (last'.disaster /\ ~ last'.threw) ]_vars

\* a return found no retained state while the cache held a body and the
\* history a pushed record
C16_Witness ==
    /\ last.op = "return" /\ last.disaster
    /\ url_cache /= <<>> /\ Len(hist) = 2

\* the step handles the server's answer to a request sent by handler `by`
AnswerTo(by) ==
    /\ last'.op = "return"
    /\ \E i \in 1 .. Len(sent) : sent[i].by = by /\ sent' = Without(sent, i)

\* C17: no history push results from a pop: handling the pop leaves the
\* history stack as it is, and so does handling the server's answer to a
\* request that a pop sent.
C17_PopNeverPushes ==
    [][ /\ last'.op = "pop" => hist' = hist
        /\ AnswerTo("pop") => hist' = hist ]_vars

\* C18: a pop whose event has no state (null) does not throw: it retains,
\* for the current location, a state without target_id and action and with
\* record false, and sends a request for that location.
C18_PopWithoutStateFallsBack ==
    [][ (last'.op = "pop" /\ hist[cur'].state = <<>>)
        => LET href == hist[cur'].url
           IN  /\ ~ last'.threw
               /\ HasKey(async_keep', href)
               /\ async_keep'[href].state.url = href
               /\ async_keep'[href].state.target_id = NULL
               /\ async_keep'[href].state.action = NULL
               /\ async_keep'[href].record = FALSE
               /\ sent' = Append(sent, [url |-> href, by |-> "pop"]) ]_vars

\* C19: when a pop to an entry of URL u has been handled while a request a
\* click sent for u was outstanding, handling the answer to that request
\* pushes no record: the history is left as it is, although the click
\* retained record = true.
C19_PopCancelsPendingPush ==
    [][ ( /\ last.op = "pop"
          /\ last'.op = "return"
          /\ \E i \in 1 .. Len(sent) :
                 /\ sent[i] = [url |-> hist[cur].url, by |-> "click"]
                 /\ sent' = Without(sent, i) )
        => (hist' = hist /\ ~ last'.pushed) ]_vars

\* C20: when two clicks on different uncached URLs u1, then u2, both with
\* record = true, are pending, their records are pushed in the order of the
\* clicks whatever the order of the answers: the answer for u2 pushes no
\* record while the state of u1, clicked earlier, is still retained, so the
\* record of u1 never ends on top of that of u2.
C20_PushesInClickOrder ==
    [][ \A i, j \in 1 .. Len(sent) :
          ( /\ i < j
            /\ sent[i].by = "click" /\ sent[j].by = "click"
            /\ sent[i].url /= sent[j].url
            /\ HasKey(async_keep, sent[i].url) /\ async_keep[sent[i].url].record
            /\ HasKey(async_keep, sent[j].url) /\ async_keep[sent[j].url].record
            /\ last'.op = "return"
            /\ sent' = Without(sent, j) )
          => (hist' = hist /\ ~ last'.pushed) ]_vars

\* C21: retained states of different URLs are independent: handling the
\* return for u removes the retained state of u and leaves the retained
\* state of every other URL as it was, and the return is made current and
\* cached with the target, function and flags retained for u, whatever the
\* order of the returns.
C21_ReturnsIndependent ==
    [][ \A u \in DOMAIN async_keep, r \in Responses :
          (last'.op = "return" /\ fetchResolved(u, r))
          => /\ \A v \in DOMAIN async_keep \ {u} :
                   HasKey(async_keep', v) /\ async_keep'[v] = async_keep[v]
             /\ r /= Malformed
                => LET e == async_keep[u]
                   IN  /\ DOMAIN async_keep' = DOMAIN async_keep \ {u}
                       /\ last'.url = u
                       /\ last'.filled = (IF Truthy(e.state.target_id)
                                          THEN getElementById(e.state.target_id)
                                          ELSE NULL)
                       /\ last'.invoked = (IF Truthy(e.state.action)
                                           THEN e.state.action ELSE NULL)
                       /\ last'.pushed = e.record
                       /\ last'.put = Truthy(e.cache)
                       /\ last'.put => last'.key = u ]_vars

\* the return for one URL was handled, calling its function, while the
\* state of another URL, with another target and function, stays retained
C21_Witness ==
    /\ last.op = "return" /\ last.invoked = "handler" /\ last.filled = NULL
    /\ \E v \in DOMAIN async_keep :
           /\ v /= last.url
           /\ async_keep[v].state.target_id = "page"
           /\ async_keep[v].state.action = NULL

\* C22: a click on a link without href (or with an href that cannot be made
\* a URL) is given up: event.preventDefault() is not called, so the browser
\* follows the link itself, and the cache, the retained states and the
\* history are unchanged and no request is sent.
C22_ClickWithoutHrefAborted ==
    [][ \A link \in Links :
          (last'.op = "click" /\ link.href = NullUrl /\ click(link))
          => /\ ~ last'.prevented
             /\ url_cache' = url_cache
             /\ async_keep' = async_keep
             /\ hist' = hist /\ cur' = cur
             /\ sent' = sent /\ inflight' = inflight ]_vars

\* C24: a state retained by a pop that misses the cache has the cache flag
\* of a click, true unless the cache limit is 0; so when the answer to the
\* pop's request is handled, the body is in the cache under the URL
\* afterwards (the cache not being disabled nor full), only the push to the
\* history being left out.
C24_PopReturnCached ==
    [][ /\ (last'.op = "pop" /\ last'.fetched)
           => Truthy(async_keep'[last'.url].cache) = (conf.cache /= 0)
        /\ \A u \in DOMAIN async_keep, b \in Bodies :
              ( /\ AnswerTo("pop")
                /\ fetchResolved(u, Raw(b))
                /\ ~ async_keep[u].record
                /\ (conf.cache < 0 \/ Len(url_cache) < conf.cache) )
              => (getBodyFromCache(url_cache', u) = b /\ hist' = hist) ]_vars

\* C28: under a positive cache limit n with n keys in the cache, storing a
\* body b2 under a key that is in the cache removes nothing: the key keeps
\* its place in the order of insertion and its body becomes b2.
C28_OverwriteKeepsPlace ==
    [][ ( /\ conf.cache > 0
          /\ last'.put
          /\ Len(url_cache) >= conf.cache
          /\ last'.key \in CacheKeys(url_cache) )
        => url_cache' = CacheAssign(url_cache, last'.key, last'.body) ]_vars

\* C27: as long as the request for u is not answered (it may fail and never
\* be answered), the navigation that sent it has pushed nothing to the
\* history and changed nothing in the cache, and the state retained for u
\* stays as it is under every step that is not about u; another click on
\* u then sends a request again, and the return for u makes u current.
C27_UnansweredFetchInert ==
    [][ /\ (last'.op \in {"click", "pop"} /\ last'.fetched)
           => /\ hist' = hist /\ url_cache' = url_cache
              /\ HasKey(async_keep', last'.url)
        /\ \A u \in DOMAIN async_keep :
              (last'.op = "init" \/ last'.url /= u)
              => (HasKey(async_keep', u) /\ async_keep'[u] = async_keep[u])
        /\ \A link \in Links :
              ( /\ last'.op = "click"
                /\ link.href /= NullUrl
                /\ HasKey(async_keep, prefixUrl(link.href))
                /\ prefixUrl(link.href) \notin CacheKeys(url_cache)
                /\ click(link) )
              => /\ sent' = Append(sent, [url |-> prefixUrl(link.href), by |-> "click"])
                 /\ HasKey(async_keep', prefixUrl(link.href))
        /\ \A u \in DOMAIN async_keep, b \in Bodies :
              (last'.op = "return" /\ fetchResolved(u, Raw(b)))
              => /\ last'.url = u /\ last'.body = b /\ ~ last'.disaster
                 /\ last'.filled /= NULL \/ last'.invoked /= NULL ]_vars

\* after a second click on the URL its return was made current, while the
\* first request for it is still unanswered
C27_Witness ==
    /\ last.op = "return" /\ last.filled = "page" /\ last.body = "x"
    /\ \E i \in 1 .. Len(sent) : sent[i] = [url |-> last.url, by |-> "click"]

\* C25: whatever calls of setConf came before it, a call of resetConf leaves
\* every setting at its default value (with no setConf before it the
\* settings are the defaults and stay so).
C25_ResetRestoresDefaults ==
    [][ (last'.op = "resetConf" /\ resetConf) => conf' = DefaultConf ]_vars

\* C29: under a positive cache limit n, storing a key that is not in the
\* cache when the cache holds s >= n keys removes exactly the s - n + 1
\* entries stored first, and no other entry.
C29_EvictsOldest ==
    [][ ( /\ conf.cache > 0
          /\ last'.put
          /\ Len(url_cache) >= conf.cache
          /\ last'.key \notin CacheKeys(url_cache) )
        => { i \in 1 .. Len(url_cache) : url_cache[i].url \notin CacheKeys(url_cache') }
              = 1 .. ((Len(url_cache) - conf.cache) + 1) ]_vars

\* a return stores a new key when the cache holds two keys and the limit
\* has been lowered to one: both are removed
C29_Witness ==
    /\ last.op = "return" /\ last.put
    /\ conf.cache = 1 /\ bk_conf /= <<>>
    /\ last.presize = 2
    /\ last.key \notin CacheKeys(url_cache)
    /\ url_cache = <<>>


\* C23: every handler looks a URL up in its normalized form, and
\* normalizing twice is normalizing once: a pop whose record carries a URL
\* in any form, relative or absolute, is served from the cache when the
\* cache holds a body under the normalized URL.
C23_PopNormalizes ==
    [][ \A rec \in EventRecords :
            /\ prefixUrl(prefixUrl(rec.url)) = prefixUrl(rec.url)
            /\ ( /\ last'.op = "pop"
                  /\ Truthy(getBodyFromCache(url_cache, prefixUrl(rec.url)))
                  /\ popEvent(rec) )
                => /\ last'.hit
                   /\ last'.body = getBodyFromCache(url_cache, prefixUrl(rec.url)) ]_vars


\* C26: when the function named by the state being made current is not a
\* function of the page, the handler ends in an exception, and the element
\* the state targets, if there is one, has the body all the same.
C26_UnresolvedActionStillFills ==
    [][ /\ \A u \in DOMAIN async_keep, b \in Bodies :
              ( /\ last'.op = "return"
                /\ Truthy(getStateAction(conf, async_keep[u].state))
                /\ getStateAction(conf, async_keep[u].state) \notin Callables
                /\ actFetchResolved(u, Raw(b)) )
              => /\ last'.threw
                 /\ last'.body = b
                 /\ last'.filled = getStateTarget(conf, async_keep[u].state)
        /\ \A a \in ActInitArgs :
              ( /\ last'.op = "init"
                /\ a[4] /\ Truthy(a[3]) /\ a[3] \notin Callables
                /\ init(a[1], a[2], a[3], a[4]) )
              => /\ last'.threw
                 /\ last'.body = a[1]
                 /\ last'.filled = getElementById(a[2]) ]_vars

\* a return for the link whose function the page does not have: the
\* element is filled and the handler threw
C26_Witness ==
    /\ last.op = "return" /\ last.threw /\ last.invoked = NULL
    /\ last.filled = "page" /\ last.body = "x"
    /\ last.url = prefixUrl(<<"b">>)

\* C30: when the function called while the return for u is handled clicks
\* on a link to u, which is not in the cache, then after the return the
\* state retained by that click is still there for its answer, and the
\* cache holds no null body under u.
C30_ReentrantClickKeepsEntry ==
    [][ \A u \in DOMAIN async_keep, b \in Bodies :
            ( /\ last'.op = "return"
              /\ u = prefixUrl(HandlerLink.href)
              /\ getStateAction(conf, async_keep[u].state) = "handler"
              /\ ~ Truthy(getBodyFromCache(url_cache, u))
              /\ actFetchResolved(u, Raw(b)) )
            => /\ HasKey(async_keep', u)
               /\ HasKey(inflight', u)
               /\ ~ (u \in CacheKeys(url_cache') /\ getBodyFromCache(url_cache', u) = NULL) ]_vars


\* C34: whenever the answer to a request, a click served from the cache or
\* a pop served from the cache writes a body into an element, that element
\* is given to touchLinksInRegion, so that the links in the new content get
\* their listeners.
C34_FilledRegionTouched ==
    [][ (last'.op \in {"return", "click", "pop"} /\ last'.filled /= NULL)
        => last'.touched = last'.filled ]_vars

\* C35: a click or a pop on a URL that is a key of the cache is served from
\* the cache, whatever the body stored (the empty string included), and
\* sends no request.
C35_HitByKey ==
    [][ /\ \A link \in Links :
              ( /\ last'.op = "click"
                /\ link.href /= NullUrl
                /\ prefixUrl(link.href) \in CacheKeys(url_cache)
                /\ click(link) )
              => (last'.hit /\ ~ last'.fetched /\ sent' = sent)
        /\ \A j \in 1 .. Len(hist) :
              ( /\ last'.op = "pop"
                /\ hist[j].state /= <<>>
                /\ hist[j].state[1].url \in CacheKeys(url_cache)
                /\ pop(j) )
              => (last'.hit /\ ~ last'.fetched /\ sent' = sent) ]_vars

\* C38: with a negative cache limit no key ever leaves the cache.
C38_UnlimitedKeepsKeys ==
    [][ conf.cache < 0 => CacheKeys(url_cache) \subseteq CacheKeys(url_cache') ]_vars

\* with a negative limit, a body has just been stored and the cache holds
\* the keys stored before it
C38_Witness ==
    /\ conf.cache < 0
    /\ last.put /\ last.presize >= 2
    /\ Len(url_cache) >= 3


\* C33: the answer to a request whose URL has retained state removes that
\* state and the handler ends without an exception, also when the state's
\* target is the id of no element and when its function is not a function
\* of the page.
C33_ReturnAlwaysConsumes ==
    [][ \A u \in DOMAIN async_keep, b \in Bodies :
            (last'.op = "return" /\ actFetchResolved(u, Raw(b)))
            => (~ last'.threw /\ ~ HasKey(async_keep', u)) ]_vars


\* C37: in every state, the state retained under a URL u has u as its url
\* and has no body: the body is set only by the return that removes it.
C37_RetainedStateHasNoBody ==
    \A u \in DOMAIN async_keep :
        /\ async_keep[u].state.url = u
        /\ async_keep[u].state.body \in {NULL, UNDEFINED}


\* C31: every retained state is removed by the answer to the request for
\* its URL, so that once every request sent has been answered no state is
\* retained.
C31_AnsweredLeavesNothing ==
    (inflight = EmptyObj) => (async_keep = EmptyObj)

\* C32: no answer to a request the program sent finds the retained state
\* for its URL missing.
C32_NoDisaster == ~ last.disaster


\* C36: in the module with one retained state, when a pop that is not
\* served from the cache retains the state of v (which names a function)
\* while the request of a click for another URL u is outstanding, the
\* answer for u is made current with v's target and function and stored in
\* the cache under v, and nothing is retained afterwards while the request
\* for v is still outstanding; an answer that arrives when nothing is
\* retained takes the DISASTER branch and changes nothing.
C36_SlotRace ==
    [][ \A u \in DOMAIN inflight, b \in Bodies :
            /\ ( /\ last'.op = "return"
                 /\ HasKey(async_keep, "state")
                 /\ async_keep.state.url /= u
                 \* the state retained is a pop's: event.state has no body
                 /\ async_keep.state.body = UNDEFINED /\ ~ async_keep.record
                 /\ HasKey(inflight, async_keep.state.url)
                 /\ \E i \in 1 .. Len(sent) : sent[i] = [url |-> u, by |-> "click"]
                 /\ slotFetchResolved(u, Raw(b)) )
               => /\ last'.filled = getStateTarget(conf, async_keep.state)
                  /\ last'.invoked = async_keep.state.action
                  /\ ~ last'.pushed
                  /\ getBodyFromCache(url_cache', async_keep.state.url) = b
                  /\ ~ HasKey(async_keep', "state")
                  /\ HasKey(inflight', async_keep.state.url)
            /\ ( /\ last'.op = "return"
                 /\ ~ HasKey(async_keep, "state")
                 /\ slotFetchResolved(u, Raw(b)) )
               => /\ last'.disaster
                  /\ url_cache' = url_cache /\ hist' = hist ]_vars

\* the answer to the click on "b" has been made current as "/a" and is in
\* the cache under "/a", whose own request is still outstanding
C36_Witness ==
    /\ last.op = "return" /\ last.url = prefixUrl(<<"b">>)
    /\ last.put /\ last.key = prefixUrl(<<"/", "a">>)
    /\ last.invoked = "handler" /\ last.filled = "page" /\ last.body = "x"
    /\ getBodyFromCache(url_cache, prefixUrl(<<"/", "a">>)) = "x"
    /\ ~ HasKey(async_keep, "state")
    /\ sent = << [url |-> prefixUrl(<<"/", "a">>), by |-> "pop"] >>


=============================================================================
